---- MODULE Spec2Model ----
(***************************************************************************)
(* A model of hello_rust: shared_state and channels                        *)
(* (concurrency_and_mutability.rs), find and read_file (errors.rs), Door   *)
(* (objects.rs).                                                           *)
(*                                                                         *)
(* shared_state builds `handlers` with Iterator::map, which is lazy: the   *)
(* closure that spawns worker i runs only when the for loop asks the       *)
(* iterator for its next element, and the loop body joins that handle      *)
(* before it asks for the following one.                                   *)
(***************************************************************************)
EXTENDS Naturals, Integers, Sequences, FiniteSets, TLC

\* The largest number of worker tasks explored (the code sets 10, line 81).
MaxN == 10

Workers == 0 .. (MaxN - 1)

\* The main flow, as a holder of the MutexGuard.
Main == -1

\* The value of `printed` before println! at line 91 has run.
NotPrinted == <<-1>>

VARIABLES
    N,          \* the end of the range (0..N) of line 81
    cur,        \* the next element the range (0..N) yields
    mainPc,     \* "iter" | "join" | "print" | "read" | "done" | "aborted"
    handle,     \* the JoinHandle the loop body holds (a worker's index), or Main
    pc,         \* per worker: "unspawned" | "start" | "locked" | "pushed" | "finished" | "panicked"
    guards,     \* the tasks that hold a MutexGuard of v
    poisoned,   \* the Mutex's poison flag
    vec,        \* the Vec inside the Mutex
    printed     \* what println! at line 91 printed, or NotPrinted

VARIABLES
    needle,     \* find's needle: u16
    haystack,   \* find's haystack: Vec<u16>
    fi,         \* the index enumerate() yields next
    fret,       \* <<"idle">> | <<"running">> | <<"Some", i>> | <<"None">>
    fs,         \* the file system: what each path names
    rpath,      \* read_file's path
    rstage,     \* "idle" | "call" | "opened" | "returned" | "panicked"
    rret        \* <<"none">> | <<"Ok", content>> | <<"Err", kind>>

VARIABLES
    doors,      \* objects.rs: the Door values that exist, each with its is_open
    cN,         \* channels: the constant N, the end of the range (0..N)
    ccur,       \* channels: the next element the range (0..N) yields
    cmainPc,    \* channels: "idle" | "iter" | "join" | "recv" | "done" | "aborted"
    chandle,    \* channels: the JoinHandle the loop body holds, or Main
    cpc,        \* channels, per sender: "unspawned" | "start" | "sent" | "finished" | "panicked"
    queue,      \* channels: the messages sent and not yet received
    txCount,    \* channels: the Sender handles alive (tx and its clones)
    rxAlive,    \* channels: whether the Receiver rx is alive
    numbers     \* channels: the values received so far

sharedVars == <<N, cur, mainPc, handle, pc, guards, poisoned, vec, printed>>
findVars == <<needle, haystack, fi, fret>>
fileVars == <<fs, rpath, rstage, rret>>
doorVars == <<doors>>
chanVars == <<cN, ccur, cmainPc, chandle, cpc, queue, txCount, rxAlive, numbers>>
vars == <<sharedVars, findVars, fileVars, doorVars, chanVars>>

\* find and read_file are not running.
FindIdle == needle = 0 /\ haystack = <<>> /\ fi = 0 /\ fret = <<"idle">>
FileIdle == fs = <<>> /\ rpath = 0 /\ rstage = "idle" /\ rret = <<"none">>

\* No Door exists; channels is not running.
DoorIdle == doors = <<>>
ChanIdle ==
    /\ cN = 0
    /\ ccur = 0
    /\ cmainPc = "idle"
    /\ chandle = Main
    /\ cpc = <<>>
    /\ queue = <<>>
    /\ txCount = 0
    /\ rxAlive = FALSE
    /\ numbers = <<>>

\* let v = Arc::new(Mutex::new(vec![])); let handlers = (0..N).map(..) (lazy)
InitShared ==
    /\ N \in 0 .. MaxN
    /\ cur = 0
    /\ mainPc = "iter"
    /\ handle = Main
    /\ pc = [i \in Workers |-> "unspawned"]
    /\ guards = {}
    /\ poisoned = FALSE
    /\ vec = <<>>
    /\ printed = NotPrinted
    /\ FindIdle
    /\ FileIdle
    /\ DoorIdle
    /\ ChanIdle

\* Range<i32>::next: whether the range (0..N) has another element.
HasNextInclusive == cur <= N /\ cur \in Workers
HasNext == cur < N

\* for handle in handlers: handlers.next() runs the map closure once, which
\* clones the Arc and spawns worker `cur`; the loop body then holds its handle.
MainSpawn ==
    /\ mainPc = "iter"
    /\ HasNext
    /\ pc' = [pc EXCEPT ![cur] = "start"]
    /\ handle' = cur
    /\ cur' = cur + 1
    /\ mainPc' = "join"
    /\ UNCHANGED <<findVars, fileVars, doorVars, chanVars, N, guards, poisoned, vec, printed>>

\* handlers.next() returns None: the for loop ends.
MainLoopEnd ==
    /\ mainPc = "iter"
    /\ ~HasNext
    /\ mainPc' = "print"
    /\ handle' = Main
    /\ UNCHANGED <<findVars, fileVars, doorVars, chanVars, N, cur, pc, guards, poisoned, vec, printed>>

\* handle.join().unwrap(): blocks until the worker has ended; Err (the worker
\* panicked) makes unwrap panic, which ends the main flow.
MainJoinDetached ==
    /\ mainPc = "join"
    /\ mainPc' = "iter"
    /\ UNCHANGED <<findVars, fileVars, doorVars, chanVars, N, cur, handle, pc, guards, poisoned, vec, printed>>
MainJoinIgnoreErr ==
    /\ mainPc = "join"
    /\ pc[handle] \in {"finished", "panicked"}
    /\ mainPc' = "iter"
    /\ UNCHANGED <<findVars, fileVars, doorVars, chanVars, N, cur, handle, pc, guards, poisoned, vec, printed>>
MainJoin ==
    /\ mainPc = "join"
    /\ pc[handle] \in {"finished", "panicked"}
    /\ mainPc' = IF pc[handle] = "finished" THEN "iter" ELSE "aborted"
    /\ UNCHANGED <<findVars, fileVars, doorVars, chanVars, N, cur, handle, pc, guards, poisoned, vec, printed>>

\* v.lock().unwrap() of line 91: blocks while another task holds the guard;
\* a poisoned Mutex gives Err, and unwrap panics.
MainLock ==
    /\ mainPc = "print"
    /\ guards = {}
    /\ IF poisoned
         THEN mainPc' = "aborted" /\ UNCHANGED guards
         ELSE mainPc' = "read" /\ guards' = guards \cup {Main}
    /\ UNCHANGED <<findVars, fileVars, doorVars, chanVars, N, cur, handle, pc, poisoned, vec, printed>>

\* println!("shared state: {:?}", guard): reads the Vec; the temporary guard
\* is dropped at the end of the statement and shared_state returns.
MainRead ==
    /\ mainPc = "read"
    /\ printed' = vec
    /\ guards' = guards \ {Main}
    /\ mainPc' = "done"
    /\ UNCHANGED <<findVars, fileVars, doorVars, chanVars, N, cur, handle, pc, poisoned, vec>>

\* let mut vector = numbers.lock().unwrap();
WorkerLockDropped(i) ==
    /\ pc[i] = "start"
    /\ guards = {}
    /\ pc' = [pc EXCEPT ![i] = IF poisoned THEN "panicked" ELSE "locked"]
    /\ UNCHANGED <<findVars, fileVars, doorVars, chanVars, N, cur, mainPc, handle, guards, poisoned, vec, printed>>
WorkerLock(i) ==
    /\ pc[i] = "start"
    /\ guards = {}
    /\ IF poisoned
         THEN pc' = [pc EXCEPT ![i] = "panicked"] /\ UNCHANGED guards
         ELSE pc' = [pc EXCEPT ![i] = "locked"] /\ guards' = guards \cup {i}
    /\ UNCHANGED <<findVars, fileVars, doorVars, chanVars, N, cur, mainPc, handle, poisoned, vec, printed>>

\* (*vector).push(i);
WorkerPushZero(i) ==
    /\ pc[i] = "locked"
    /\ vec' = Append(vec, 0)
    /\ pc' = [pc EXCEPT ![i] = "pushed"]
    /\ UNCHANGED <<findVars, fileVars, doorVars, chanVars, N, cur, mainPc, handle, guards, poisoned, printed>>
WorkerPushReplace(i) ==
    /\ pc[i] = "locked"
    /\ vec' = <<i>>
    /\ pc' = [pc EXCEPT ![i] = "pushed"]
    /\ UNCHANGED <<findVars, fileVars, doorVars, chanVars, N, cur, mainPc, handle, guards, poisoned, printed>>
WorkerPush(i) ==
    /\ pc[i] = "locked"
    /\ vec' = Append(vec, i)
    /\ pc' = [pc EXCEPT ![i] = "pushed"]
    /\ UNCHANGED <<findVars, fileVars, doorVars, chanVars, N, cur, mainPc, handle, guards, poisoned, printed>>

\* The closure ends: the guard `vector` is dropped and the thread finishes.
WorkerExitLeakGuard(i) ==
    /\ pc[i] = "pushed"
    /\ pc' = [pc EXCEPT ![i] = "finished"]
    /\ UNCHANGED <<findVars, fileVars, doorVars, chanVars, N, cur, mainPc, handle, guards, poisoned, vec, printed>>
WorkerExit(i) ==
    /\ pc[i] = "pushed"
    /\ guards' = guards \ {i}
    /\ pc' = [pc EXCEPT ![i] = "finished"]
    /\ UNCHANGED <<findVars, fileVars, doorVars, chanVars, N, cur, mainPc, handle, poisoned, vec, printed>>

\* The worker terminates abnormally inside push (Vec::push panics when the
\* new capacity overflows): nothing is appended, and unwinding drops the
\* guard while the thread is panicking, which sets the poison flag.
WorkerPushPanicNoPoison(i) ==
    /\ pc[i] = "locked"
    /\ guards' = guards \ {i}
    /\ pc' = [pc EXCEPT ![i] = "panicked"]
    /\ UNCHANGED <<findVars, fileVars, doorVars, chanVars, N, cur, mainPc, handle, poisoned, vec, printed>>
WorkerPushPanic(i) ==
    /\ pc[i] = "locked"
    /\ guards' = guards \ {i}
    /\ poisoned' = TRUE
    /\ pc' = [pc EXCEPT ![i] = "panicked"]
    /\ UNCHANGED <<findVars, fileVars, doorVars, chanVars, N, cur, mainPc, handle, vec, printed>>

Next ==
    \/ MainSpawn
    \/ MainLoopEnd
    \/ MainJoin
    \/ MainLock
    \/ MainRead
    \/ \E i \in Workers : WorkerLock(i)
    \/ \E i \in Workers : WorkerPush(i)
    \/ \E i \in Workers : WorkerExit(i)

NextFault ==
    \/ Next
    \/ \E i \in Workers : WorkerPushPanic(i)

\* shared_state with no task terminating abnormally.
Spec == InitShared /\ [][Next]_vars

\* shared_state where a worker may terminate abnormally while it holds the lock.
SpecFault == InitShared /\ [][NextFault]_vars

\* The OS scheduler runs every thread that is able to run.
FairSpec == InitShared /\ [][Next]_vars /\ WF_vars(Next)

(***************************************************************************)
(* errors.rs: find                                                         *)
(***************************************************************************)

\* The longest haystack and the largest u16 value explored.
MaxLen == 4
MaxVal == 5

Values == 0 .. MaxVal

\* The haystacks explored: every Vec<u16> of at most MaxLen values.
Haystacks == UNION {[1 .. n -> Values] : n \in 0 .. MaxLen}

SharedIdle ==
    /\ N = 0
    /\ cur = 0
    /\ mainPc = "idle"
    /\ handle = Main
    /\ pc = [i \in Workers |-> "unspawned"]
    /\ guards = {}
    /\ poisoned = FALSE
    /\ vec = <<>>
    /\ printed = NotPrinted

\* find(needle, haystack) is called: haystack.iter().enumerate() starts at 0.
InitFind ==
    /\ needle \in Values
    /\ haystack \in Haystacks
    /\ fi = 0
    /\ fret = <<"running">>
    /\ SharedIdle
    /\ FileIdle
    /\ DoorIdle
    /\ ChanIdle

\* One iteration of the for loop: (i, &item) is (fi, haystack[fi]), which is
\* the model's haystack[fi + 1]; if item == needle { return Some(i); }
FindStepOneBased ==
    /\ fret = <<"running">>
    /\ fi < Len(haystack)
    /\ IF haystack[fi + 1] = needle
         THEN fret' = <<"Some", fi + 1>> /\ UNCHANGED fi
         ELSE fi' = fi + 1 /\ UNCHANGED fret
    /\ UNCHANGED <<sharedVars, fileVars, doorVars, chanVars, needle, haystack>>
FindStep ==
    /\ fret = <<"running">>
    /\ fi < Len(haystack)
    /\ IF haystack[fi + 1] = needle
         THEN fret' = <<"Some", fi>> /\ UNCHANGED fi
         ELSE fi' = fi + 1 /\ UNCHANGED fret
    /\ UNCHANGED <<sharedVars, fileVars, doorVars, chanVars, needle, haystack>>

\* The iterator is exhausted: the loop ends and find returns None.
FindEnd ==
    /\ fret = <<"running">>
    /\ fi >= Len(haystack)
    /\ fret' = <<"None">>
    /\ UNCHANGED <<sharedVars, fileVars, doorVars, chanVars, needle, haystack, fi>>

NextFind ==
    \/ FindStep
    \/ FindEnd

SpecFind == InitFind /\ [][NextFind]_vars

(***************************************************************************)
(* errors.rs: read_file                                                    *)
(***************************************************************************)

\* The number of paths explored.
MaxPaths == 3

Paths == 1 .. MaxPaths

\* What a path may name: nothing, a file the process may not open, a
\* directory, a file whose bytes are not UTF-8, a file of UTF-8 text.
FsEntries ==
    { <<"absent", "">>, <<"denied", "x">>, <<"dir", "">>,
      <<"binary", "x">>, <<"text", "">>, <<"text", "hello">> }

\* read_file(path) is called on some file system.
InitReadFile ==
    /\ fs \in [Paths -> FsEntries]
    /\ rpath \in Paths
    /\ rstage = "call"
    /\ rret = <<"none">>
    /\ SharedIdle
    /\ FindIdle
    /\ DoorIdle
    /\ ChanIdle

\* fs::read_to_string(&path), first half: File::open. A path that names
\* nothing gives Err(NotFound), a file that may not be opened
\* Err(PermissionDenied); read_file returns the Err as it is.
ReadFileOpenUnwrap ==
    /\ rstage = "call"
    /\ IF fs[rpath][1] \in {"absent", "denied"}
         THEN rstage' = "panicked" /\ UNCHANGED rret
         ELSE rstage' = "opened" /\ UNCHANGED rret
    /\ UNCHANGED <<sharedVars, findVars, doorVars, chanVars, fs, rpath>>
ReadFileOpen ==
    /\ rstage = "call"
    /\ IF fs[rpath][1] = "absent"
         THEN rstage' = "returned" /\ rret' = <<"Err", "NotFound">>
         ELSE IF fs[rpath][1] = "denied"
         THEN rstage' = "returned" /\ rret' = <<"Err", "PermissionDenied">>
         ELSE rstage' = "opened" /\ UNCHANGED rret
    /\ UNCHANGED <<sharedVars, findVars, doorVars, chanVars, fs, rpath>>

\* fs::read_to_string(&path), second half: reading the opened file into a
\* String. A directory gives Err(IsADirectory), bytes that are not UTF-8
\* Err(InvalidData), text Ok(content).
ReadFileRead ==
    /\ rstage = "opened"
    /\ rstage' = "returned"
    /\ rret' = IF fs[rpath][1] = "dir" THEN <<"Err", "IsADirectory">>
               ELSE IF fs[rpath][1] = "binary" THEN <<"Err", "InvalidData">>
               ELSE <<"Ok", fs[rpath][2]>>
    /\ UNCHANGED <<sharedVars, findVars, doorVars, chanVars, fs, rpath>>

NextReadFile ==
    \/ ReadFileOpen
    \/ ReadFileRead

SpecReadFile == InitReadFile /\ [][NextReadFile]_vars

(***************************************************************************)
(* Properties of shared_state                                              *)
(***************************************************************************)

\* How many times x occurs in the sequence s.
Count(s, x) == Cardinality({k \in 1 .. Len(s) : s[k] = x})

\* s has length n and holds each integer of [0, n) exactly once.
IsPermutationOfRange(s, n) ==
    /\ Len(s) = n
    /\ \A x \in 0 .. (n - 1) : Count(s, x) = 1

\* The sequence 0, 1, ..., n-1.
Ascending(n) == [k \in 1 .. n |-> k - 1]

\* Worker i is spawned and has not ended.
Running(i) == pc[i] \in {"start", "locked", "pushed"}

\* C1: once the main flow has joined every worker, the shared sequence has
\* length exactly N and holds each integer of [0, N) exactly once, and that
\* sequence is what the run yields.
C1_JoinedIsPermutation ==
    /\ mainPc \in {"print", "read", "done"} => IsPermutationOfRange(vec, N)
    /\ mainPc = "done" => printed = vec

C1_Witness == mainPc = "done" /\ N >= 3 /\ Len(printed) = N

\* C2: no two tasks hold the lock of the container at the same time, and
\* every change of the container is an append made by a task that holds
\* the lock.
C2_MutualExclusion ==
    /\ [](Cardinality(guards) <= 1)
    /\ [][vec' # vec =>
            \E t \in guards : t \in Workers /\ vec' = Append(vec, t)]_vars

C2_Witness ==
    \E i \in Workers : i >= 1 /\ pc[i] = "pushed" /\ guards = {i} /\ vec[Len(vec)] = i

\* C3: the main flow reads the container only after all N appends: whenever
\* the final read is under way or done, every worker of [0, N) has appended.
C3_ReadAfterAllAppends ==
    (mainPc \in {"read", "done"} \/ printed # NotPrinted) =>
        \A i \in 0 .. (N - 1) : Count(vec, i) >= 1 /\ pc[i] \in {"pushed", "finished"}

C3_Witness == mainPc = "read" /\ N >= 2 /\ Len(vec) = N

\* C4: the main flow launches all N workers before it begins waiting for any
\* of them: whenever it waits in a join, every worker of [0, N) is spawned.
C4_AllSpawnedBeforeJoin ==
    mainPc = "join" => \A i \in 0 .. (N - 1) : pc[i] # "unspawned"

\* What the code does instead: at most one worker is running at any time,
\* and a worker is spawned only when every worker before it has finished.
OneWorkerAtATime ==
    /\ Cardinality({i \in Workers : Running(i)}) <= 1
    /\ \A i, j \in Workers : (i < j /\ pc[j] # "unspawned") => pc[i] \in {"finished", "panicked"}

\* C5: for N >= 2 the final sequence is not always the ascending one: the
\* run ends with some other ordering of [0, N). The formula is read over
\* each fair run; FinalOrderAscending below is the invariant that shows no
\* run of the code ends in any other ordering.
C5_SomeOtherOrder ==
    (N >= 2) => <>(mainPc = "done" /\ printed # Ascending(N))

\* What the code does instead: the container is always a prefix of
\* 0, 1, ..., N-1, so the final sequence is always the ascending one.
FinalOrderAscending ==
    /\ \A k \in 1 .. Len(vec) : vec[k] = k - 1
    /\ mainPc = "done" => printed = Ascending(N)

\* C6: if a worker terminates abnormally, the main flow aborts at the join
\* of that worker: it takes no other step, spawns no further worker, never
\* reaches the final read and yields nothing.
C6_WorkerFailureAbortsRun ==
    /\ [](\A i \in Workers : pc[i] = "panicked" =>
            /\ handle = i
            /\ mainPc \in {"join", "aborted"}
            /\ printed = NotPrinted)
    /\ [][(\E i \in Workers : pc[i] = "panicked") =>
            /\ mainPc' = "aborted"
            /\ pc' = pc
            /\ vec' = vec
            /\ printed' = printed]_vars

C6_Witness ==
    /\ mainPc = "aborted"
    /\ Len(vec) >= 1
    /\ Len(vec) < N
    /\ printed = NotPrinted
    /\ \E i \in Workers : pc[i] = "panicked"

C8_ZeroTasks ==
    (N = 0) =>
        /\ \A i \in Workers : pc[i] = "unspawned"
        /\ mainPc # "join"
        /\ mainPc = "print" => (guards = {} /\ ~poisoned)
        /\ vec = <<>>
        /\ mainPc = "done" => printed = <<>>

C8_Witness == N = 0 /\ mainPc = "done" /\ printed = <<>>

(***************************************************************************)
(* Properties of find and read_file                                        *)
(***************************************************************************)

\* C9: find returns Some(i) only for the smallest i with haystack[i] ==
\* needle, and None only when needle does not occur in haystack;
\* find(2, [1,3,4,5]) is None and find(3, [1,3,4,5]) is Some(1).
C9_FindFirstIndex ==
    /\ fret[1] = "Some" =>
          /\ fret[2] \in 0 .. (Len(haystack) - 1)
          /\ haystack[fret[2] + 1] = needle
          /\ \A j \in 1 .. fret[2] : haystack[j] # needle
    /\ fret = <<"None">> => \A j \in 1 .. Len(haystack) : haystack[j] # needle
    /\ (haystack = <<1, 3, 4, 5>> /\ fret # <<"running">>) =>
          /\ needle = 2 => fret = <<"None">>
          /\ needle = 3 => fret = <<"Some", 1>>

C9_Witness ==
    /\ haystack = <<3, 1, 3, 1>>
    /\ needle = 1
    /\ fret = <<"Some", 1>>

\* C10: read_file never panics; on a path that names nothing it returns
\* Err carrying the cause; it returns Ok(content) only when the path names
\* a readable file, and then content is that file's text.
C10_ReadFileExplicitFailure ==
    /\ rstage # "panicked"
    /\ (rstage = "returned" /\ fs[rpath][1] = "absent") => rret = <<"Err", "NotFound">>
    /\ (rstage = "returned" /\ rret[1] = "Ok") =>
          /\ fs[rpath][1] = "text"
          /\ rret[2] = fs[rpath][2]
    /\ rstage = "returned" => rret[1] \in {"Ok", "Err"}

C10_Witness ==
    /\ rstage = "returned"
    /\ fs[rpath][1] = "absent"
    /\ rret = <<"Err", "NotFound">>

(***************************************************************************)
(* objects.rs: Door                                                        *)
(***************************************************************************)

\* The number of Door values explored, and of open() calls on each.
MaxDoors == 3
MaxOpens == 2

DoorIds == 1 .. MaxDoors

\* A Door that has not been created. `created` (the argument of Door::new)
\* and `opens` (the open() calls so far) record the door's history; the
\* struct itself has the one field is_open.
NoDoor == [exists |-> FALSE, is_open |-> FALSE, created |-> FALSE, opens |-> 0]

InitDoor ==
    /\ doors = [d \in DoorIds |-> NoDoor]
    /\ SharedIdle
    /\ FindIdle
    /\ FileIdle
    /\ ChanIdle

\* Door::new(is_open): Door { is_open }
DoorNew(d, b) ==
    /\ ~doors[d].exists
    /\ doors' = [doors EXCEPT ![d] =
                    [exists |-> TRUE, is_open |-> b, created |-> b, opens |-> 0]]
    /\ UNCHANGED <<sharedVars, findVars, fileVars, chanVars>>

\* Openable::open for Door: self.is_open = true;
DoorOpenToggle(d) ==
    /\ doors[d].exists
    /\ doors[d].opens < MaxOpens
    /\ doors' = [doors EXCEPT ![d].is_open = ~doors[d].is_open,
                              ![d].opens = doors[d].opens + 1]
    /\ UNCHANGED <<sharedVars, findVars, fileVars, chanVars>>
DoorOpen(d) ==
    /\ doors[d].exists
    /\ doors[d].opens < MaxOpens
    /\ doors' = [doors EXCEPT ![d].is_open = TRUE,
                              ![d].opens = doors[d].opens + 1]
    /\ UNCHANGED <<sharedVars, findVars, fileVars, chanVars>>

NextDoor ==
    \/ \E d \in DoorIds, b \in BOOLEAN : DoorNew(d, b)
    \/ \E d \in DoorIds : DoorOpen(d)

SpecDoor == InitDoor /\ [][NextDoor]_vars

\* C11: a Door made by Door::new(b), for either b, has is_open true after
\* open(), however many open() calls follow, and no operation takes is_open
\* from true back to false.
C11_OpenStaysOpen ==
    /\ [](\A d \in DoorIds :
            (doors[d].exists /\ doors[d].opens >= 1) => doors[d].is_open)
    /\ [][\A d \in DoorIds :
            (doors[d].exists /\ doors[d].is_open) => doors'[d].is_open]_vars

C11_Witness ==
    \E d, e \in DoorIds :
        /\ doors[d].exists /\ ~doors[d].created /\ doors[d].opens = 2 /\ doors[d].is_open
        /\ doors[e].exists /\ doors[e].created /\ doors[e].opens = 1 /\ doors[e].is_open

(***************************************************************************)
(* Further properties of shared_state                                      *)
(***************************************************************************)

\* The workers that have completed their append.
Appended == {i \in Workers : pc[i] \in {"pushed", "finished"}}

\* C12: in every reachable state the container is append-only and agrees
\* with the workers' progress: it starts empty, its elements are distinct
\* integers of [0, N), they are exactly the indices of the workers that have
\* completed their append, and a step either leaves the container as it is
\* or adds one element at its end.
C12_AppendOnly ==
    /\ vec = <<>>
    /\ [](/\ \A k \in 1 .. Len(vec) : vec[k] \in 0 .. (N - 1)
          /\ \A x \in Workers : Count(vec, x) <= 1
          /\ {vec[k] : k \in 1 .. Len(vec)} = Appended)
    /\ [][/\ Len(vec') \in {Len(vec), Len(vec) + 1}
          /\ SubSeq(vec', 1, Len(vec)) = vec]_vars

C12_Witness ==
    /\ N >= 4
    /\ Len(vec) = 2
    /\ pc[2] = "locked"
    /\ Appended = {0, 1}

\* C13: with no task terminating abnormally and a fair scheduler, every
\* spawned worker takes the lock, every worker of [0, N) appends, releases
\* the guard and finishes, every join returns, the main flow reaches the
\* end of the run, and no state before that end is a deadlock.
C13_Terminates ==
    /\ <>(mainPc = "done")
    /\ \A i \in Workers : (pc[i] = "start") ~> (guards = {i})
    /\ \A i \in Workers : (i < N) => <>[](pc[i] = "finished" /\ i \notin guards /\ Count(vec, i) = 1)
    /\ (mainPc = "join") ~> (mainPc = "iter")
    /\ [](mainPc = "done" \/ ENABLED Next)

C13_Witness ==
    /\ mainPc = "done"
    /\ N >= 2
    /\ guards = {}
    /\ \A i \in 0 .. (N - 1) : pc[i] = "finished"

\* C14: when the main flow is about to take the lock for its final read, no
\* worker is running and no task holds the lock, so the acquisition can
\* happen at once and succeeds; from that point on no step changes the
\* container.
C14_FinalLockUncontended ==
    /\ [](mainPc = "print" =>
            /\ \A i \in Workers : ~Running(i)
            /\ guards = {}
            /\ ENABLED MainLock)
    /\ [][mainPc = "print" => mainPc' \in {"print", "read"}]_vars
    /\ [](mainPc = "read" => guards = {Main})
    /\ [][(mainPc \in {"print", "read", "done"}) => vec' = vec]_vars

C14_Witness ==
    /\ mainPc = "print"
    /\ N >= 2
    /\ Len(vec) = N
    /\ \A i \in 0 .. (N - 1) : pc[i] = "finished"

(***************************************************************************)
(* concurrency_and_mutability.rs: channels                                 *)
(*                                                                         *)
(* As in shared_state, `handlers` is a lazy map: sender i is spawned when  *)
(* the for loop asks for the next handle, and joined before sender i+1 is  *)
(* spawned.                                                                *)
(***************************************************************************)

\* The largest N explored (the code sets const N: i32 = 10, line 45).
MaxSend == 10

Senders == 0 .. (MaxSend - 1)

\* let (tx, rx) = channel(); let handlers = (0..N).map(..) (lazy)
InitChan ==
    /\ cN \in 0 .. MaxSend
    /\ ccur = 0
    /\ cmainPc = "iter"
    /\ chandle = Main
    /\ cpc = [i \in Senders |-> "unspawned"]
    /\ queue = <<>>
    /\ txCount = 1
    /\ rxAlive = TRUE
    /\ numbers = <<>>
    /\ SharedIdle
    /\ FindIdle
    /\ FileIdle
    /\ DoorIdle

\* for h in handlers: handlers.next() runs the map closure once: tx.clone()
\* and thread::spawn of sender `ccur`, which owns the clone.
ChanSpawn ==
    /\ cmainPc = "iter"
    /\ ccur < cN
    /\ txCount' = txCount + 1
    /\ cpc' = [cpc EXCEPT ![ccur] = "start"]
    /\ chandle' = ccur
    /\ ccur' = ccur + 1
    /\ cmainPc' = "join"
    /\ UNCHANGED <<sharedVars, findVars, fileVars, doorVars, cN, queue, rxAlive, numbers>>

\* handlers.next() returns None: the for loop ends and the collect of
\* line 59 starts with nothing received.
ChanLoopEnd ==
    /\ cmainPc = "iter"
    /\ ccur >= cN
    /\ cmainPc' = "recv"
    /\ chandle' = Main
    /\ UNCHANGED <<sharedVars, findVars, fileVars, doorVars, cN, ccur, cpc, queue, txCount, rxAlive, numbers>>

\* _tx.send(i).unwrap(): the channel is unbounded, so send never blocks; it
\* gives Err only when the Receiver is gone, and unwrap then panics (the
\* unwinding drops _tx).
ChanSendLost(i) ==
    /\ cpc[i] = "start"
    /\ cpc' = [cpc EXCEPT ![i] = "sent"]
    /\ UNCHANGED <<sharedVars, findVars, fileVars, doorVars, cN, ccur, cmainPc, chandle, queue, txCount, rxAlive, numbers>>
ChanSend(i) ==
    /\ cpc[i] = "start"
    /\ IF rxAlive
         THEN /\ queue' = Append(queue, i)
              /\ cpc' = [cpc EXCEPT ![i] = "sent"]
              /\ UNCHANGED txCount
         ELSE /\ cpc' = [cpc EXCEPT ![i] = "panicked"]
              /\ txCount' = txCount - 1
              /\ UNCHANGED queue
    /\ UNCHANGED <<sharedVars, findVars, fileVars, doorVars, cN, ccur, cmainPc, chandle, rxAlive, numbers>>

\* The sender's closure ends: _tx is dropped and the thread finishes.
ChanSenderExit(i) ==
    /\ cpc[i] = "sent"
    /\ cpc' = [cpc EXCEPT ![i] = "finished"]
    /\ txCount' = txCount - 1
    /\ UNCHANGED <<sharedVars, findVars, fileVars, doorVars, cN, ccur, cmainPc, chandle, queue, rxAlive, numbers>>

\* h.join().unwrap(): blocks until the sender has ended; Err (the sender
\* panicked) makes unwrap panic, which ends the main flow and drops tx, rx.
ChanJoin ==
    /\ cmainPc = "join"
    /\ cpc[chandle] \in {"finished", "panicked"}
    /\ IF cpc[chandle] = "finished"
         THEN cmainPc' = "iter" /\ UNCHANGED <<txCount, rxAlive>>
         ELSE cmainPc' = "aborted" /\ txCount' = txCount - 1 /\ rxAlive' = FALSE
    /\ UNCHANGED <<sharedVars, findVars, fileVars, doorVars, cN, ccur, chandle, cpc, queue, numbers>>

\* rx.recv().unwrap(), one of the N calls the collect makes: takes the
\* oldest queued message; with the queue empty it blocks while a Sender is
\* alive, and gives Err (unwrap panics) when none is.
ChanRecv ==
    /\ cmainPc = "recv"
    /\ Len(numbers) < cN
    /\ queue # <<>> \/ txCount = 0
    /\ IF queue # <<>>
         THEN /\ numbers' = Append(numbers, Head(queue))
              /\ queue' = Tail(queue)
              /\ UNCHANGED <<cmainPc, rxAlive>>
         ELSE /\ cmainPc' = "aborted"
              /\ rxAlive' = FALSE
              /\ UNCHANGED <<numbers, queue>>
    /\ UNCHANGED <<sharedVars, findVars, fileVars, doorVars, cN, ccur, chandle, cpc, txCount>>

\* The collect has its N values: println! and return, which drops tx and rx.
ChanReturn ==
    /\ cmainPc = "recv"
    /\ Len(numbers) >= cN
    /\ cmainPc' = "done"
    /\ txCount' = txCount - 1
    /\ rxAlive' = FALSE
    /\ UNCHANGED <<sharedVars, findVars, fileVars, doorVars, cN, ccur, chandle, cpc, queue, numbers>>

NextChan ==
    \/ ChanSpawn
    \/ ChanLoopEnd
    \/ ChanJoin
    \/ ChanRecv
    \/ ChanReturn
    \/ \E i \in Senders : ChanSend(i)
    \/ \E i \in Senders : ChanSenderExit(i)

\* channels under a scheduler that runs every thread that is able to run.
FairSpecChan == InitChan /\ [][NextChan]_vars /\ WF_vars(NextChan)

\* C15: channels always terminates, with exactly N values received, each
\* integer of [0, N) once: no send fails, every sender has been joined
\* before the first recv, so each recv finds a message queued (the Sender
\* tx is still alive then, so a recv on an empty queue would block), and
\* the queue is empty after the N-th recv.
C15_ChannelsReceivesAll ==
    /\ <>(cmainPc = "done")
    /\ [](cmainPc # "aborted" /\ \A i \in Senders : cpc[i] # "panicked")
    /\ [](cmainPc = "recv" =>
            /\ \A i \in Senders : cpc[i] = (IF i < cN THEN "finished" ELSE "unspawned")
            /\ txCount = 1
            /\ Len(numbers) + Len(queue) = cN
            /\ Len(numbers) < cN => queue # <<>>)
    /\ [](cmainPc = "done" =>
            /\ IsPermutationOfRange(numbers, cN)
            /\ queue = <<>>)
    /\ [][numbers' # numbers => cmainPc = "recv"]_vars

C15_Witness ==
    /\ cmainPc = "done"
    /\ cN >= 3
    /\ Len(numbers) = cN
    /\ queue = <<>>

====
